---- MODULE Spec2Model ----
(***************************************************************************)
(* The execute_workflow MCP tool                                           *)
(* (packages/cli/src/modules/mcp/tools/execute-workflow.tool.ts).          *)
(*                                                                         *)
(* One invocation of the handler is a sequence of steps separated by the   *)
(* handler's awaits: findWorkflowForUser, isManuallyExecutable,            *)
(* executeManually, getPostExecutePromise and findSingleExecution.  Each   *)
(* action below is the settling of the awaited call together with all the  *)
(* synchronous code that follows it up to the next await or to the end of  *)
(* the handler.  The collaborators are outside the tool; what they answer  *)
(* is drawn from the sets SingleDomain / PairDomain / WaitDomain.          *)
(***************************************************************************)
EXTENDS Integers, Sequences, FiniteSets, TLC

\* ------------------------------------------------------------------ bounds
MaxNodes == 2   \* longest workflow.nodes list
MaxClock == 1   \* Date.now() ranges over 0..MaxClock

\* ------------------------------------------------------- JavaScript values
\* Every JavaScript value is a record tagged by the result of typeof
\* (null and Date are told apart from plain objects).
Undefined == [js |-> "undefined"]
Null == [js |-> "null"]
Str(s) == [js |-> "string", value |-> s]
Bool(b) == [js |-> "boolean", value |-> b]
EmptyObject == [js |-> "object"]
DateOf(ms) == [js |-> "Date", valid |-> TRUE, ms |-> ms]

\* obj.k : a missing property reads as undefined
Has(obj, k) == k \in DOMAIN obj
Get(obj, k) == IF Has(obj, k) THEN obj[k] ELSE Undefined
\* obj?.k
OptGet(obj, k) == IF obj \in {Undefined, Null} THEN Undefined ELSE Get(obj, k)
\* a ?? b
Coalesce(a, b) == IF a \in {Undefined, Null} THEN b ELSE a
\* ToBoolean(v), as used by !v, if (v) and &&
Truthy(v) ==
  CASE v.js = "undefined" -> FALSE
    [] v.js = "null" -> FALSE
    [] v.js = "boolean" -> v.value
    [] v.js = "string" -> v.value # ""
    [] OTHER -> TRUE
\* typeof v === 'object'
TypeofObject(v) == v.js \in {"object", "null", "Date"}

\* Error objects carry the name of their class; every class below extends Error.
ErrorOf(class, msg) ==
  [js |-> "object", class |-> class, name |-> Str(class), message |-> Str(msg),
   stack |-> Str("<stack>")]
InstanceofError(v) == v.js = "object" /\ Has(v, "class")
InstanceofExecutionNotFoundError(v) ==
  InstanceofError(v) /\ v.class = "ExecutionNotFoundError"

\* A settled promise / a finished call
Fulfilled(v) == [settled |-> "fulfilled", value |-> v]
Rejected(e) == [settled |-> "rejected", reason |-> e]

\* ------------------------------------------------------------ time as text
\* Date.prototype.toISOString of the instants 0..3 ms
IsoText ==
  << "1970-01-01T00:00:00.000Z", "1970-01-01T00:00:00.001Z",
     "1970-01-01T00:00:00.002Z", "1970-01-01T00:00:00.003Z" >>
\* `mcp-session-${Date.now()}`
SessionText == << "mcp-session-0", "mcp-session-1", "mcp-session-2", "mcp-session-3" >>

RangeErrorInvalidTime == ErrorOf("RangeError", "Invalid time value")

\* new Date(text): the instant the text denotes, or an Invalid Date
ParseDate(text) ==
  IF \E n \in 1..Len(IsoText) : IsoText[n] = text
  THEN DateOf((CHOOSE n \in 1..Len(IsoText) : IsoText[n] = text) - 1)
  ELSE [js |-> "Date", valid |-> FALSE, ms |-> 0]

\* date.toISOString(): throws RangeError on an Invalid Date
ToISOString(date) ==
  IF date.valid THEN Fulfilled(Str(IsoText[date.ms + 1]))
  ELSE Rejected(RangeErrorInvalidTime)

toIsoString(value) ==
  IF ~Truthy(value) THEN Fulfilled(Null)
  ELSE IF value.js = "Date" THEN ToISOString(value)
  ELSE ToISOString(ParseDate(value.value))

\* ------------------------------------------------------------------ nodes
CHAT_TRIGGER_NODE_TYPE == "@n8n/n8n-nodes-langchain.chatTrigger"
FORM_TRIGGER_NODE_TYPE == "n8n-nodes-base.formTrigger"
WEBHOOK_NODE_TYPE == "n8n-nodes-base.webhook"
SET_NODE_TYPE == "n8n-nodes-base.set"
NodeTypes ==
  {CHAT_TRIGGER_NODE_TYPE, FORM_TRIGGER_NODE_TYPE, WEBHOOK_NODE_TYPE, SET_NODE_TYPE}

\* node names are unique within a workflow: the k-th node is called NodeNames[k]
NodeNames == << "A", "B", "C" >>

\* INode: `disabled` is an optional boolean
NodesAt(k) ==
  { [js |-> "object", name |-> Str(NodeNames[k]), type |-> t] : t \in NodeTypes }
  \cup { [js |-> "object", name |-> Str(NodeNames[k]), type |-> t, disabled |-> Bool(TRUE)] :
         t \in NodeTypes }

RECURSIVE NodeLists(_)
NodeLists(n) ==
  IF n = 0 THEN { << >> }
  ELSE LET shorter == NodeLists(n - 1)
       IN shorter \cup { Append(l, x) : l \in { m \in shorter : Len(m) = n - 1 },
                                         x \in NodesAt(n) }

\* WorkflowEntity: isArchived, optional settings with optional availableInMCP
SettingsValues ==
  { EmptyObject,
    [js |-> "object", availableInMCP |-> Bool(FALSE)],
    [js |-> "object", availableInMCP |-> Bool(TRUE)] }
WorkflowsOver(lists) ==
  { [js |-> "object", isArchived |-> Bool(a), nodes |-> l] : a \in BOOLEAN, l \in lists }
  \cup { [js |-> "object", isArchived |-> Bool(a), nodes |-> l, settings |-> s] :
         a \in BOOLEAN, l \in lists, s \in SettingsValues }

\* ----------------------------------------------------- handler, lines 70-149
WorkflowNotFound == ErrorOf("UserError", "Workflow not found")

\* line 75 without its isArchived test
PreconditionFailed_IgnoresArchived(workflow) ==
  \/ ~Truthy(workflow)
  \/ ~Truthy(OptGet(Get(workflow, "settings"), "availableInMCP"))

\* line 75
PreconditionFailed(workflow) ==
  \/ ~Truthy(workflow)
  \/ Truthy(workflow.isArchived)
  \/ ~Truthy(OptGet(Get(workflow, "settings"), "availableInMCP"))

\* workflow.nodes.find((node) => !node.disabled && node.type === type)
FindEnabledNode(nodes, type) ==
  LET hits == { k \in 1..Len(nodes) :
                  ~Truthy(Get(nodes[k], "disabled")) /\ nodes[k].type = type }
  IN IF hits = {} THEN Undefined
     ELSE nodes[CHOOSE k \in hits : \A h \in hits : k <= h]

\* line 97 with the chain written in the opposite order
TriggerNodeOf_WebhookFirst(chatTriggerNode, formTriggerNode, webhookNode) ==
  Coalesce(webhookNode, Coalesce(formTriggerNode, chatTriggerNode))

\* line 97 without its last alternative
TriggerNodeOf_NoWebhook(chatTriggerNode, formTriggerNode, webhookNode) ==
  Coalesce(chatTriggerNode, formTriggerNode)

\* line 97
TriggerNodeOf(chatTriggerNode, formTriggerNode, webhookNode) ==
  Coalesce(chatTriggerNode, Coalesce(formTriggerNode, webhookNode))

\* line 107 reading another field of the inputs
ReadChatInput_ReadsWebhookData(inputs) ==
  IF inputs \in {Undefined, Null}
  THEN Rejected(ErrorOf("TypeError",
                        "Cannot read properties of undefined (reading 'chatInput')"))
  ELSE Fulfilled(Get(inputs, "webhookData"))

\* inputs.chatInput, line 107: reading a property of undefined throws
ReadChatInput(inputs) ==
  IF inputs \in {Undefined, Null}
  THEN Rejected(ErrorOf("TypeError",
                        "Cannot read properties of undefined (reading 'chatInput')"))
  ELSE Fulfilled(Get(inputs, "chatInput"))

\* lines 101-121 with the caller's webhookData as the body of line 119
TriggerDataOf_SendsWebhookData(chatTriggerNode, formTriggerNode, inputs, now) ==
  IF Truthy(chatTriggerNode)
  THEN LET chatInput == ReadChatInput(inputs)
       IN IF chatInput.settled = "rejected" THEN chatInput
          ELSE Fulfilled([js |-> "object",
                          sessionId |-> Str(SessionText[now + 1]),
                          action |-> Str("sendMessage"),
                          chatInput |-> chatInput.value])
  ELSE IF Truthy(formTriggerNode)
  THEN Fulfilled([js |-> "object",
                  submittedAt |-> Str(IsoText[now + 1]),
                  formMode |-> Str("test")])
  ELSE Fulfilled([js |-> "object", headers |-> EmptyObject, params |-> EmptyObject,
                  query |-> EmptyObject, body |-> Get(inputs, "webhookData")])

\* lines 101-121 with the tests of lines 103 and 109 in the opposite order
TriggerDataOf_FormFirst(chatTriggerNode, formTriggerNode, inputs, now) ==
  IF Truthy(formTriggerNode)
  THEN Fulfilled([js |-> "object",
                  submittedAt |-> Str(IsoText[now + 1]),
                  formMode |-> Str("test")])
  ELSE IF Truthy(chatTriggerNode)
  THEN LET chatInput == ReadChatInput(inputs)
       IN IF chatInput.settled = "rejected" THEN chatInput
          ELSE Fulfilled([js |-> "object",
                          sessionId |-> Str(SessionText[now + 1]),
                          action |-> Str("sendMessage"),
                          chatInput |-> chatInput.value])
  ELSE Fulfilled([js |-> "object", headers |-> EmptyObject, params |-> EmptyObject,
                  query |-> EmptyObject, body |-> EmptyObject])

\* lines 101-121
TriggerDataOf(chatTriggerNode, formTriggerNode, inputs, now) ==
  IF Truthy(chatTriggerNode)
  THEN LET chatInput == ReadChatInput(inputs)
       IN IF chatInput.settled = "rejected" THEN chatInput
          ELSE Fulfilled([js |-> "object",
                          sessionId |-> Str(SessionText[now + 1]),
                          action |-> Str("sendMessage"),
                          chatInput |-> chatInput.value])
  ELSE IF Truthy(formTriggerNode)
  THEN Fulfilled([js |-> "object",
                  submittedAt |-> Str(IsoText[now + 1]),
                  formMode |-> Str("test")])
  ELSE Fulfilled([js |-> "object", headers |-> EmptyObject, params |-> EmptyObject,
                  query |-> EmptyObject, body |-> EmptyObject])

\* lines 124-141
TriggerToStartFrom(triggerNode, triggerData, now) ==
  [name |-> triggerNode.name,
   data |-> [startTime |-> now, executionTime |-> 0, executionIndex |-> 0,
             source |-> << >>,
             data |-> [main |-> << << [json |-> triggerData] >> >>]]]

\* lines 82-143 without the test of line 86
BuildManualRunPayload_IgnoresPredicate(workflow, canManuallyExecute, inputs, now) ==
  LET chatTriggerNode == FindEnabledNode(workflow.nodes, CHAT_TRIGGER_NODE_TYPE)
      formTriggerNode == FindEnabledNode(workflow.nodes, FORM_TRIGGER_NODE_TYPE)
      webhookNode == FindEnabledNode(workflow.nodes, WEBHOOK_NODE_TYPE)
      triggerNode == TriggerNodeOf(chatTriggerNode, formTriggerNode, webhookNode)
      triggerData == TriggerDataOf(chatTriggerNode, formTriggerNode, inputs, now)
  IN IF ~Truthy(triggerNode)
     THEN Fulfilled([workflowData |-> workflow])
     ELSE IF triggerData.settled = "rejected" THEN triggerData
     ELSE Fulfilled([workflowData |-> workflow,
                     triggerToStartFrom |->
                       TriggerToStartFrom(triggerNode, triggerData.value, now)])

\* lines 82-143: the ManualRunPayload handed to executeManually, or the exception
\* that leaves the handler while building it
BuildManualRunPayload(workflow, canManuallyExecute, inputs, now) ==
  LET chatTriggerNode == FindEnabledNode(workflow.nodes, CHAT_TRIGGER_NODE_TYPE)
      formTriggerNode == FindEnabledNode(workflow.nodes, FORM_TRIGGER_NODE_TYPE)
      webhookNode == FindEnabledNode(workflow.nodes, WEBHOOK_NODE_TYPE)
      triggerNode == TriggerNodeOf(chatTriggerNode, formTriggerNode, webhookNode)
      triggerData == TriggerDataOf(chatTriggerNode, formTriggerNode, inputs, now)
  IN IF canManuallyExecute \/ ~Truthy(triggerNode)
     THEN Fulfilled([workflowData |-> workflow])
     ELSE IF triggerData.settled = "rejected" THEN triggerData
     ELSE Fulfilled([workflowData |-> workflow,
                     triggerToStartFrom |->
                       TriggerToStartFrom(triggerNode, triggerData.value, now)])

\* ---------------------------------------------------- handler, lines 151-235
MANUAL_EXECUTION_ERROR_MESSAGE ==
  "This workflow requires waiting for an external trigger (for example a webhook) before it can run. Manual execution via MCP is not possible."

\* lines 152-164
WaitingForWebhookPayload(executionResponse) ==
  [success |-> FALSE,
   executionId |-> Coalesce(Get(executionResponse, "executionId"), Null),
   waitingForWebhook |-> TRUE,
   message |-> Str(MANUAL_EXECUTION_ERROR_MESSAGE)]

\* line 152 tested only after the identifier was found missing
IsWaitingForWebhook_OnlyWithoutId(executionResponse) ==
  /\ Truthy(Get(executionResponse, "waitingForWebhook"))
  /\ ~Truthy(Get(executionResponse, "executionId"))

\* line 152
IsWaitingForWebhook(executionResponse) ==
  Truthy(Get(executionResponse, "waitingForWebhook"))

\* line 168 testing for undefined, which line 166 has already turned into null
StartFailed_OnlyUndefined(id) == id = Undefined

\* lines 166-168
StartFailed(id) == ~Truthy(id)

\* lines 168-179
NoExecutionIdPayload ==
  [success |-> FALSE,
   executionId |-> Null,
   message |-> Str("Failed to start execution: no execution ID returned.")]

\* lines 245-254
serializeError(error) ==
  IF InstanceofError(error)
  THEN [js |-> "object", name |-> error.name, message |-> error.message,
        stack |-> error.stack]
  ELSE error

\* lines 186-197: the catch block around the wait and the normalisation
WaitFailedPayload(executionId, error) ==
  [success |-> FALSE,
   executionId |-> executionId,
   message |-> IF InstanceofError(error) THEN error.message
               ELSE Str("Failed while waiting for manual execution to finish."),
   error |-> serializeError(error)]

\* lines 271-276 trusting the raw flag of run objects only
toFinished_RecordsByStatus(execution) ==
  IF Has(execution, "finished") /\ execution.finished # Undefined /\ ~Has(execution, "id")
  THEN execution.finished
  ELSE Bool(execution.status = Str("success"))

\* lines 271-276 without the test of the raw flag
toFinished_ByStatus(execution) == Bool(execution.status = Str("success"))

\* lines 271-276
toFinished(execution) ==
  IF Has(execution, "finished") /\ execution.finished # Undefined
  THEN execution.finished
  ELSE Bool(execution.status = Str("success"))

\* lines 256-291; `now` is what new Date() reads
serializeExecution(execution, now) ==
  IF ~Truthy(execution) THEN Fulfilled(Null)
  ELSE
    LET error ==
          Coalesce(OptGet(OptGet(Get(execution, "data"), "resultData"), "error"), Null)
        startedAt == toIsoString(Get(execution, "startedAt"))
        stoppedAt == toIsoString(Coalesce(Get(execution, "stoppedAt"), Null))
        waitTill == toIsoString(Coalesce(Get(execution, "waitTill"), Null))
    IN IF startedAt.settled = "rejected" THEN startedAt
       ELSE IF stoppedAt.settled = "rejected" THEN stoppedAt
       ELSE IF waitTill.settled = "rejected" THEN waitTill
       ELSE Fulfilled(
              [js |-> "object",
               id |-> IF Has(execution, "id") THEN execution.id ELSE Undefined,
               status |-> execution.status,
               finished |-> toFinished(execution),
               mode |-> execution.mode,
               startedAt |-> Coalesce(startedAt.value, Str(IsoText[now + 1])),
               stoppedAt |-> stoppedAt.value,
               waitTill |-> waitTill.value,
               data |-> Get(execution, "data"),
               error |-> error])

\* line 213
SuccessOf(executionResult) == OptGet(executionResult, "status") # Str("error")

\* line 226
HasErrorObject(executionResult) ==
  LET error == OptGet(executionResult, "error")
  IN Truthy(error) /\ TypeofObject(error)

\* line 228
ErrorMessageOf(executionResult) ==
  Coalesce(Get(executionResult.error, "message"), Str("Execution finished with an error."))

\* lines 206-229 without the block at 219-224
ResultPayload_NoNullCase(executionId, executionResult) ==
  LET payload ==
        [success |-> SuccessOf(executionResult),
         executionId |-> executionId,
         result |-> executionResult,
         error |-> Coalesce(OptGet(executionResult, "error"), Undefined)]
  IN IF HasErrorObject(executionResult)
     THEN ("message" :> ErrorMessageOf(executionResult)) @@ payload
     ELSE payload

\* lines 206-229
ResultPayload(executionId, executionResult) ==
  LET payload ==
        [success |-> SuccessOf(executionResult),
         executionId |-> executionId,
         result |-> executionResult,
         error |-> Coalesce(OptGet(executionResult, "error"), Undefined)]
      retrieved ==
        IF ~Truthy(executionResult)
        THEN ("message" :> Str("Execution finished but result could not be retrieved."))
             @@ [payload EXCEPT !.success = FALSE]
        ELSE payload
  IN IF HasErrorObject(executionResult)
     THEN ("message" :> ErrorMessageOf(executionResult)) @@ retrieved
     ELSE retrieved

\* lines 181-235 reporting the identifier found in the result
RespondTo_ResultId(executionId, execution, now) ==
  LET executionResult == serializeExecution(execution, now)
      id == Coalesce(OptGet(execution, "id"), Null)
  IN IF executionResult.settled = "rejected"
     THEN WaitFailedPayload(id, executionResult.reason)
     ELSE ResultPayload(id, executionResult.value)

\* lines 181-235: what the handler returns once the waiter has delivered
\* `execution`
RespondTo(executionId, execution, now) ==
  LET executionResult == serializeExecution(execution, now)
  IN IF executionResult.settled = "rejected"
     THEN WaitFailedPayload(executionId, executionResult.reason)
     ELSE ResultPayload(executionId, executionResult.value)

\* ------------------------------------------- waitForExecutionResult, 293-310
\* line 301 testing for any Error
FallsBackToStore_AnyError(error) == InstanceofError(error)

\* line 301: which failures of the live lookup are answered from the store
FallsBackToStore(error) == InstanceofExecutionNotFoundError(error)

\* line 303 cancelling the run instead of reading its record
FallbackCall_Cancels == "stopExecution"

\* the not-tracked condition answered by awaiting a signal of the run that is
\* no longer tracked, which nothing settles
FallbackCall_AwaitsUntracked == "getResponsePromise"

\* lines 302-305: the call made on the not-tracked condition
FallbackCall == "findSingleExecution"

\* ------------------------------------------------- what the callers supply
\* inputSchema, lines 20-29: `inputs` is optional, and so is each of its fields;
\* z.object({}) keeps no key of formData and webhookData
InputsValues ==
  { Undefined,
    EmptyObject,
    [js |-> "object", chatInput |-> Str("hello")],
    [js |-> "object", chatInput |-> Str("hi")],
    [js |-> "object", formData |-> EmptyObject, webhookData |-> EmptyObject] }

\* ------------------------------------------- what the collaborators answer
ExecutionStatuses == {"success", "error", "running", "waiting", "canceled"}

NoField == [k \in {} |-> Undefined]

\* IRun.finished is optional
FinishedShapes == { NoField, [finished |-> Bool(TRUE)], [finished |-> Bool(FALSE)] }

\* IRunExecutionData.resultData.error is optional, and so is its message
DataWithoutError == [data |-> [js |-> "object", resultData |-> EmptyObject]]
DataWithError ==
  [data |-> [js |-> "object",
             resultData |-> [js |-> "object",
                             error |-> [js |-> "object",
                                        message |-> Str("Node failed")]]]]
DataWithBareError ==
  [data |-> [js |-> "object", resultData |-> [js |-> "object", error |-> EmptyObject]]]
DataShapes == { NoField, DataWithoutError, DataWithError, DataWithBareError }

\* startedAt / stoppedAt / waitTill arrive as Date objects, as text, or not at all
TimesAsDates == [startedAt |-> DateOf(0), stoppedAt |-> DateOf(1)]
TimesMissing == [waitTill |-> Null]
TimesAsText == [startedAt |-> Str(IsoText[1]), stoppedAt |-> Null, waitTill |-> DateOf(0)]
TimesUnreadable == [startedAt |-> Str("yesterday")]
TimeShapes == { TimesAsDates, TimesMissing, TimesAsText, TimesUnreadable }

\* the data of one execution, as the engine holds it
ExecutionsOver(statuses, finisheds, datas, times) ==
  { [js |-> "object", status |-> Str(st), mode |-> Str("manual")] @@ f @@ d @@ t :
      st \in statuses, f \in finisheds, d \in datas, t \in times }

\* IRun: what the live completion signal resolves with (it has no id)
IRunOf(e) == e
\* IExecutionResponse: the stored record of the same execution
IExecutionResponseOf(e, executionId) == ("id" :> executionId) @@ e

ExecutionIds == { Str("1001"), Str("1002") }

\* executeManually resolves with { executionId?, waitingForWebhook? } or rejects
WaitingShapes ==
  { NoField, [waitingForWebhook |-> Bool(TRUE)], [waitingForWebhook |-> Bool(FALSE)] }
DispatchAnswersOver(ids, waitings) ==
  { Fulfilled([js |-> "object"] @@ x @@ w) :
      x \in { NoField } \cup { [executionId |-> id] : id \in ids }, w \in waitings }
  \cup { Rejected(ErrorOf("Error", "Workflow could not be started")) }

ExecutionNotFound == ErrorOf("ExecutionNotFoundError", "No active execution could be found")

\* getPostExecutePromise resolves with the run or with undefined, or rejects
LiveAnswersOver(executions, failures) ==
  { Fulfilled(IRunOf(e)) : e \in executions }
  \cup { Fulfilled(Undefined), Rejected(ExecutionNotFound) }
  \cup { Rejected(x) : x \in failures }

\* findSingleExecution resolves with the record or with undefined, or rejects
StoreAnswersOver(executions, failures, executionId) ==
  { Fulfilled(IExecutionResponseOf(e, executionId)) : e \in executions }
  \cup { Fulfilled(Undefined) }
  \cup { Rejected(x) : x \in failures }

\* findWorkflowForUser resolves with the workflow or with null, or rejects
FinderAnswersOver(workflows) ==
  { Fulfilled(w) : w \in workflows }
  \cup { Fulfilled(Null), Rejected(ErrorOf("Error", "Database is not reachable")) }

\* isManuallyExecutable resolves with a boolean, or rejects
PredicateAnswers ==
  { Fulfilled(Bool(TRUE)), Fulfilled(Bool(FALSE)),
    Rejected(ErrorOf("Error", "Webhook could not be registered")) }

LiveFailures == { ErrorOf("Error", "Execution was aborted"), Str("shutdown") }
StoreFailures == { ErrorOf("Error", "Connection lost") }

\* one invocation at a time, every answer
SingleDomain ==
  [inputs |-> InputsValues,
   finder |-> FinderAnswersOver(WorkflowsOver(NodeLists(MaxNodes))),
   predicate |-> PredicateAnswers,
   dispatch |-> DispatchAnswersOver(ExecutionIds, WaitingShapes),
   executions |-> ExecutionsOver(ExecutionStatuses, FinishedShapes, DataShapes, TimeShapes),
   liveFailures |-> LiveFailures,
   storeFailures |-> StoreFailures]

\* a workflow that passes line 75
AvailableWorkflow(nodes) ==
  [js |-> "object", isArchived |-> Bool(FALSE), nodes |-> nodes,
   settings |-> [js |-> "object", availableInMCP |-> Bool(TRUE)]]

\* every answer of the wait stage, over the workflows of at most one node
WaitDomain ==
  [SingleDomain EXCEPT !.finder = FinderAnswersOver(WorkflowsOver(NodeLists(1)))]

\* two invocations side by side, on one workflow and a few executions
PairDomain ==
  [inputs |-> { EmptyObject },
   finder |-> FinderAnswersOver({ AvailableWorkflow(<< >>) }),
   predicate |-> PredicateAnswers,
   dispatch |-> DispatchAnswersOver(ExecutionIds, { NoField, [waitingForWebhook |-> Bool(TRUE)] }),
   executions |-> ExecutionsOver({"success", "error"}, { NoField, [finished |-> Bool(TRUE)] },
                                 { DataWithoutError, DataWithError },
                                 { TimesAsDates, TimesMissing, TimesUnreadable }),
   liveFailures |-> LiveFailures,
   storeFailures |-> StoreFailures]

\* two invocations side by side up to the dispatch: workflows that start from a
\* chat trigger, from a webhook and from a form trigger, and inputs that differ
\* in chatInput, webhookData and formData
StartPairDomain ==
  [inputs |-> { EmptyObject,
                [js |-> "object", webhookData |-> EmptyObject],
                [js |-> "object", formData |-> EmptyObject],
                [js |-> "object", chatInput |-> Str("hello")],
                [js |-> "object", chatInput |-> Str("hello"), webhookData |-> EmptyObject] },
   finder |-> FinderAnswersOver(
                { AvailableWorkflow(<< [js |-> "object", name |-> Str("A"),
                                        type |-> CHAT_TRIGGER_NODE_TYPE] >>),
                  AvailableWorkflow(<< [js |-> "object", name |-> Str("A"),
                                        type |-> WEBHOOK_NODE_TYPE] >>),
                  AvailableWorkflow(<< [js |-> "object", name |-> Str("A"),
                                        type |-> FORM_TRIGGER_NODE_TYPE],
                                       [js |-> "object", name |-> Str("B"),
                                        type |-> WEBHOOK_NODE_TYPE] >>) }),
   predicate |-> PredicateAnswers,
   dispatch |-> DispatchAnswersOver({ Str("1001") }, { NoField }),
   executions |-> ExecutionsOver({"success"}, { NoField }, { DataWithoutError },
                                 { TimesAsDates }),
   liveFailures |-> { },
   storeFailures |-> { }]

\* ------------------------------------------------------------------ state
VARIABLES
  pc,                 \* per invocation: the call the handler awaits, or how it ended
  args,               \* per invocation: { workflowId, inputs }
  clock,              \* Date.now()
  workflow,           \* per invocation: line 71
  canManuallyExecute, \* per invocation: line 80
  manualRunPayload,   \* per invocation: line 82, the request handed to executeManually
  executionResponse,  \* per invocation: line 145
  executionId,        \* per invocation: line 166
  live,               \* per invocation: how getPostExecutePromise settled
  stored,             \* per invocation: how findSingleExecution settled
  calls,              \* per invocation: the collaborator calls made so far, in order
  response,           \* per invocation: structuredContent of the returned value
  thrown              \* per invocation: the error the returned promise rejected with

vars ==
  << pc, args, clock, workflow, canManuallyExecute, manualRunPayload,
     executionResponse, executionId, live, stored, calls, response, thrown >>

Invocations == DOMAIN pc

Call(fn, arg) == [fn |-> fn, arg |-> arg]
\* what the call log keeps of a request handed to executeManually: the name of
\* the node it starts from, undefined when it starts from none
StartNameOf(payload) == OptGet(Get(payload, "triggerToStartFrom"), "name")
CallsTo(i, fn) == { k \in 1..Len(calls[i]) : calls[i][k].fn = fn }

InitOver(invocations) ==
  /\ pc = [i \in invocations |-> "idle"]
  /\ args = [i \in invocations |-> Undefined]
  /\ clock = 0
  /\ workflow = [i \in invocations |-> Undefined]
  /\ canManuallyExecute = [i \in invocations |-> Undefined]
  /\ manualRunPayload = [i \in invocations |-> Undefined]
  /\ executionResponse = [i \in invocations |-> Undefined]
  /\ executionId = [i \in invocations |-> Undefined]
  /\ live = [i \in invocations |-> Undefined]
  /\ stored = [i \in invocations |-> Undefined]
  /\ calls = [i \in invocations |-> << >>]
  /\ response = [i \in invocations |-> Undefined]
  /\ thrown = [i \in invocations |-> Undefined]

\* the handler's return value kept in one place for all invocations
Return_Shared(i, payload) ==
  /\ pc' = [pc EXCEPT ![i] = "returned"]
  /\ response' = [j \in DOMAIN response |-> payload]
  /\ thrown' = thrown

\* the handler returns { content, structuredContent: payload }
Return(i, payload) ==
  /\ pc' = [pc EXCEPT ![i] = "returned"]
  /\ response' = [response EXCEPT ![i] = payload]
  /\ thrown' = thrown

\* an exception leaves the handler: the call is rejected
Throw(i, error) ==
  /\ pc' = [pc EXCEPT ![i] = "rejected"]
  /\ thrown' = [thrown EXCEPT ![i] = error]
  /\ response' = response

\* the handler calls a collaborator and awaits it
Await(i, fn, arg) ==
  /\ pc' = [pc EXCEPT ![i] = fn]
  /\ calls' = [calls EXCEPT ![i] = Append(@, Call(fn, arg))]
  /\ response' = response
  /\ thrown' = thrown

\* lines 70-73: the tool is invoked
Invoke(i, D) ==
  /\ pc[i] = "idle"
  /\ \E inputs \in D.inputs :
       args' = [args EXCEPT ![i] = [workflowId |-> Str("wf1"), inputs |-> inputs]]
  /\ Await(i, "findWorkflowForUser", Str("wf1"))
  /\ UNCHANGED << clock, workflow, canManuallyExecute, manualRunPayload,
                  executionResponse, executionId, live, stored >>

\* lines 71-80: findWorkflowForUser settles
FindWorkflowForUserSettles(i, D) ==
  /\ pc[i] = "findWorkflowForUser"
  /\ \E answer \in D.finder :
       IF answer.settled = "rejected"
       THEN /\ Throw(i, answer.reason)
            /\ UNCHANGED << workflow, calls >>
       ELSE /\ workflow' = [workflow EXCEPT ![i] = answer.value]
            /\ IF PreconditionFailed(answer.value)
               THEN Throw(i, WorkflowNotFound) /\ UNCHANGED calls
               ELSE Await(i, "isManuallyExecutable", Undefined)
  /\ UNCHANGED << args, clock, canManuallyExecute, manualRunPayload,
                  executionResponse, executionId, live, stored >>

\* lines 80-149: isManuallyExecutable settles
IsManuallyExecutableSettles(i, D) ==
  /\ pc[i] = "isManuallyExecutable"
  /\ \E answer \in D.predicate :
       IF answer.settled = "rejected"
       THEN /\ Throw(i, answer.reason)
            /\ UNCHANGED << canManuallyExecute, manualRunPayload, calls >>
       ELSE LET built == BuildManualRunPayload(workflow[i], answer.value.value,
                                               args[i].inputs, clock)
            IN /\ canManuallyExecute' = [canManuallyExecute EXCEPT ![i] = answer.value]
               /\ IF built.settled = "rejected"
                  THEN /\ Throw(i, built.reason)
                       /\ UNCHANGED << manualRunPayload, calls >>
                  ELSE /\ manualRunPayload' =
                            [manualRunPayload EXCEPT ![i] = built.value]
                       /\ Await(i, "executeManually", StartNameOf(built.value))
  /\ UNCHANGED << args, clock, workflow, executionResponse, executionId, live, stored >>

\* lines 145-184: executeManually settles.  The workflow, the predicate's answer
\* and the request are not read again by the handler; they are cleared here.
ExecuteManuallySettles(i, D) ==
  /\ pc[i] = "executeManually"
  /\ workflow' = [workflow EXCEPT ![i] = Undefined]
  /\ canManuallyExecute' = [canManuallyExecute EXCEPT ![i] = Undefined]
  /\ manualRunPayload' = [manualRunPayload EXCEPT ![i] = Undefined]
  /\ \E answer \in D.dispatch :
       IF answer.settled = "rejected"
       THEN /\ Throw(i, answer.reason)
            /\ UNCHANGED << executionResponse, executionId, calls >>
       ELSE LET id == Coalesce(Get(answer.value, "executionId"), Null)
            IN /\ executionResponse' = [executionResponse EXCEPT ![i] = answer.value]
               /\ IF IsWaitingForWebhook(answer.value)
                  THEN /\ Return(i, WaitingForWebhookPayload(answer.value))
                       /\ UNCHANGED << executionId, calls >>
                  ELSE /\ executionId' = [executionId EXCEPT ![i] = id]
                       /\ IF StartFailed(id)
                          THEN Return(i, NoExecutionIdPayload) /\ UNCHANGED calls
                          ELSE Await(i, "getPostExecutePromise", id)
  /\ UNCHANGED << args, clock, live, stored >>

\* lines 298-309 and 183-235: getPostExecutePromise settles
GetPostExecutePromiseSettles(i, D) ==
  /\ pc[i] = "getPostExecutePromise"
  /\ \E answer \in LiveAnswersOver(D.executions, D.liveFailures) :
       /\ live' = [live EXCEPT ![i] = answer]
       /\ IF answer.settled = "fulfilled"
          THEN /\ Return(i, RespondTo(executionId[i], Coalesce(answer.value, Null), clock))
               /\ UNCHANGED calls
          ELSE IF FallsBackToStore(answer.reason)
          THEN Await(i, FallbackCall, executionId[i])
          ELSE /\ Return(i, WaitFailedPayload(executionId[i], answer.reason))
               /\ UNCHANGED calls
  /\ UNCHANGED << args, clock, workflow, canManuallyExecute, manualRunPayload,
                  executionResponse, executionId, stored >>

\* lines 302-306 and 183-235: findSingleExecution settles
FindSingleExecutionSettles(i, D) ==
  /\ pc[i] = "findSingleExecution"
  /\ \E answer \in StoreAnswersOver(D.executions, D.storeFailures, executionId[i]) :
       /\ stored' = [stored EXCEPT ![i] = answer]
       /\ IF answer.settled = "fulfilled"
          THEN Return(i, RespondTo(executionId[i], Coalesce(answer.value, Null), clock))
          ELSE Return(i, WaitFailedPayload(executionId[i], answer.reason))
  /\ UNCHANGED << args, clock, workflow, canManuallyExecute, manualRunPayload,
                  executionResponse, executionId, live, calls >>

\* a millisecond passes
Tick ==
  /\ clock < MaxClock
  /\ clock' = clock + 1
  /\ UNCHANGED << pc, args, workflow, canManuallyExecute, manualRunPayload,
                  executionResponse, executionId, live, stored, calls, response, thrown >>

Init == InitOver({1})

Next ==
  \/ Tick
  \/ \E i \in Invocations : Invoke(i, SingleDomain)
  \/ \E i \in Invocations : FindWorkflowForUserSettles(i, SingleDomain)
  \/ \E i \in Invocations : IsManuallyExecutableSettles(i, SingleDomain)
  \/ \E i \in Invocations : ExecuteManuallySettles(i, SingleDomain)
  \/ \E i \in Invocations : GetPostExecutePromiseSettles(i, SingleDomain)
  \/ \E i \in Invocations : FindSingleExecutionSettles(i, SingleDomain)

Spec == Init /\ [][Next]_vars

\* the wait stage under the scheduling the event loop gives: a settled promise
\* resumes the handler that awaits it
WaitNext ==
  \/ Tick
  \/ \E i \in Invocations : Invoke(i, WaitDomain)
  \/ \E i \in Invocations : FindWorkflowForUserSettles(i, WaitDomain)
  \/ \E i \in Invocations : IsManuallyExecutableSettles(i, WaitDomain)
  \/ \E i \in Invocations : ExecuteManuallySettles(i, WaitDomain)
  \/ \E i \in Invocations : GetPostExecutePromiseSettles(i, WaitDomain)
  \/ \E i \in Invocations : FindSingleExecutionSettles(i, WaitDomain)

FairSpec ==
  /\ Init
  /\ [][WaitNext]_vars
  /\ \A i \in {1} : WF_vars(GetPostExecutePromiseSettles(i, WaitDomain))
  /\ \A i \in {1} : WF_vars(FindSingleExecutionSettles(i, WaitDomain))

\* two invocations of the same tool, interleaved at their awaits
PairInit == InitOver({1, 2})

PairNext ==
  \/ Tick
  \/ \E i \in Invocations : Invoke(i, PairDomain)
  \/ \E i \in Invocations : FindWorkflowForUserSettles(i, PairDomain)
  \/ \E i \in Invocations : IsManuallyExecutableSettles(i, PairDomain)
  \/ \E i \in Invocations : ExecuteManuallySettles(i, PairDomain)
  \/ \E i \in Invocations : GetPostExecutePromiseSettles(i, PairDomain)
  \/ \E i \in Invocations : FindSingleExecutionSettles(i, PairDomain)

PairSpec == PairInit /\ [][PairNext]_vars

\* two invocations of the same tool on workflows that need a synthetic start
StartPairNext ==
  \/ Tick
  \/ \E i \in Invocations : Invoke(i, StartPairDomain)
  \/ \E i \in Invocations : FindWorkflowForUserSettles(i, StartPairDomain)
  \/ \E i \in Invocations : IsManuallyExecutableSettles(i, StartPairDomain)
  \/ \E i \in Invocations : ExecuteManuallySettles(i, StartPairDomain)
  \/ \E i \in Invocations : GetPostExecutePromiseSettles(i, StartPairDomain)
  \/ \E i \in Invocations : FindSingleExecutionSettles(i, StartPairDomain)

StartPairSpec == PairInit /\ [][StartPairNext]_vars

\* ================================================================== claims
\* how an invocation ended, read off the answers the collaborators gave
FailsPrecondition(w) ==
  \/ w = Null
  \/ w.isArchived = Bool(TRUE)
  \/ ~(Has(w, "settings") /\ Get(w.settings, "availableInMCP") = Bool(TRUE))
Dispatched(i) == executionResponse[i] # Undefined
DispatchWaiting(i) ==
  Dispatched(i) /\ Get(executionResponse[i], "waitingForWebhook") = Bool(TRUE)
DispatchGaveNoId(i) ==
  Dispatched(i) /\ Get(executionResponse[i], "executionId") = Undefined
LiveRejected(i) == live[i] # Undefined /\ live[i].settled = "rejected"
LiveNotTracked(i) == LiveRejected(i) /\ live[i].reason = ExecutionNotFound
WaitStageCalls(i) ==
  CallsTo(i, "getPostExecutePromise") \cup CallsTo(i, "findSingleExecution")

\* C1: when the workflow lookup returns nothing, or an archived workflow, or one
\* whose settings do not mark it available in MCP, the invocation is rejected
\* with the 'Workflow not found' user error, returns no payload, and calls
\* neither the executability predicate nor the dispatch nor any result lookup.
C1_PreconditionRejects ==
  \A i \in Invocations :
    (workflow[i] # Undefined /\ FailsPrecondition(workflow[i])) =>
      /\ pc[i] = "rejected"
      /\ thrown[i] = WorkflowNotFound
      /\ response[i] = Undefined
      /\ \A k \in 1..Len(calls[i]) : calls[i][k].fn = "findWorkflowForUser"

C1_Witness ==
  \E i \in Invocations :
    /\ pc[i] = "rejected"
    /\ workflow[i] \notin {Undefined, Null}
    /\ workflow[i].isArchived = Bool(TRUE)
    /\ OptGet(Get(workflow[i], "settings"), "availableInMCP") = Bool(TRUE)
    /\ Len(workflow[i].nodes) > 0

\* C2: an invocation is rejected only when a precondition failed (or the
\* workflow lookup itself failed); whatever the inputs and whatever the
\* predicate, the dispatch and the two result lookups do, the caller gets a
\* structured payload.
C2_RejectedOnlyOnPrecondition ==
  \A i \in Invocations :
    pc[i] = "rejected" =>
      \/ thrown[i] = WorkflowNotFound /\ FailsPrecondition(workflow[i])
      \/ Len(calls[i]) = 1 /\ workflow[i] = Undefined

\* C3: in every returned response success is false whenever the error field is
\* non-null, whenever the dispatch returned no execution identifier and
\* whenever the dispatch reported waiting on an external event.
C3_FailureIsNeverSuccess ==
  \A i \in Invocations :
    ( /\ pc[i] = "returned"
      /\ \/ Has(response[i], "error") /\ response[i].error \notin {Undefined, Null}
         \/ DispatchGaveNoId(i)
         \/ DispatchWaiting(i) )
    => response[i].success = FALSE

\* C4: once the dispatch has returned an execution identifier without the
\* waiting flag, the invocation eventually returns a response, given that the
\* live completion signal and the store lookup eventually settle.
C4_WaitStageReturns ==
  \A i \in {1} :
    (Dispatched(i) /\ ~DispatchGaveNoId(i) /\ ~DispatchWaiting(i)) ~> (pc[i] = "returned")

C4_Witness ==
  \E i \in Invocations :
    pc[i] = "returned" /\ LiveNotTracked(i) /\ stored[i] # Undefined

\* C5: when the dispatch reports waiting for an external event, the handler
\* returns success=false, waitingForWebhook=true and the fixed message, with or
\* without an execution identifier, and never calls either result lookup.
C5_WaitingIsTerminal ==
  \A i \in Invocations :
    DispatchWaiting(i) =>
      /\ pc[i] = "returned"
      /\ response[i] =
           [success |-> FALSE,
            executionId |-> IF DispatchGaveNoId(i) THEN Null
                            ELSE executionResponse[i].executionId,
            waitingForWebhook |-> TRUE,
            message |-> Str(MANUAL_EXECUTION_ERROR_MESSAGE)]
      /\ WaitStageCalls(i) = {}
      /\ live[i] = Undefined /\ stored[i] = Undefined

C5_Witness ==
  \E i \in Invocations :
    DispatchWaiting(i) /\ ~DispatchGaveNoId(i) /\ pc[i] = "returned"

\* C6: when the dispatch returns neither an execution identifier nor the
\* waiting flag, the handler returns success=false, executionId=null and the
\* message "Failed to start execution: no execution ID returned.", and never
\* calls either result lookup.
C6_NoIdIsStartFailure ==
  \A i \in Invocations :
    (DispatchGaveNoId(i) /\ ~DispatchWaiting(i)) =>
      /\ pc[i] = "returned"
      /\ response[i] =
           [success |-> FALSE,
            executionId |-> Null,
            message |-> Str("Failed to start execution: no execution ID returned.")]
      /\ WaitStageCalls(i) = {}
      /\ live[i] = Undefined /\ stored[i] = Undefined

C6_Witness ==
  \E i \in Invocations :
    /\ DispatchGaveNoId(i)
    /\ Get(executionResponse[i], "waitingForWebhook") = Bool(FALSE)
    /\ pc[i] = "returned"

\* C7: the store lookup is called if and only if the live lookup failed with
\* ExecutionNotFoundError; any other failure of the live lookup ends the
\* invocation, without a store lookup, in a payload with success=false, the
\* dispatched executionId and the raised error's message (the generic text
\* when the raised value is not an error object).
C7_FallbackOnlyWhenNotTracked ==
  \A i \in Invocations :
    /\ (CallsTo(i, "findSingleExecution") # {}) <=> LiveNotTracked(i)
    /\ (LiveRejected(i) /\ ~LiveNotTracked(i)) =>
         /\ pc[i] = "returned"
         /\ stored[i] = Undefined
         /\ response[i].success = FALSE
         /\ response[i].executionId = executionResponse[i].executionId
         /\ response[i].message =
              IF live[i].reason \in LiveFailures /\ live[i].reason.js = "object"
              THEN live[i].reason.message
              ELSE Str("Failed while waiting for manual execution to finish.")
         /\ ~Has(response[i], "result")

C7_Witness ==
  \E i \in Invocations :
    /\ LiveRejected(i)
    /\ live[i].reason = ErrorOf("Error", "Execution was aborted")
    /\ pc[i] = "returned"

\* C8: when the live lookup fails with ExecutionNotFoundError and the store
\* lookup finds no record, the handler returns (does not throw) result=null,
\* success=false and "Execution finished but result could not be retrieved.".
C8_MissingRecord ==
  \A i \in Invocations :
    (LiveNotTracked(i) /\ stored[i] = Fulfilled(Undefined)) =>
      /\ pc[i] = "returned"
      /\ thrown[i] = Undefined
      /\ response[i].result = Null
      /\ response[i].success = FALSE
      /\ response[i].message =
           Str("Execution finished but result could not be retrieved.")

C8_Witness ==
  \E i \in Invocations :
    LiveNotTracked(i) /\ stored[i] = Fulfilled(Undefined) /\ pc[i] = "returned"

\* invocation i was answered by the live signal and invocation j, after the
\* not-tracked condition, by the stored record of an execution with the same data
SameExecution(i, j) ==
  /\ live[i] # Undefined /\ live[i].settled = "fulfilled" /\ live[i].value # Undefined
  /\ LiveNotTracked(j)
  /\ stored[j] # Undefined /\ stored[j].settled = "fulfilled"
  /\ stored[j].value # Undefined
  /\ stored[j].value = IExecutionResponseOf(IRunOf(live[i].value), stored[j].value.id)
SameMessage(a, b) ==
  /\ Has(a, "message") <=> Has(b, "message")
  /\ Has(a, "message") => a.message = b.message
TimesReadable(e) ==
  \A f \in {"startedAt", "stoppedAt", "waitTill"} :
    Get(e, f).js = "string" => \E n \in 1..Len(IsoText) : IsoText[n] = Get(e, f).value

\* C9 (as claimed): for the same underlying execution data, whose timestamps
\* are dates, ISO text or absent, the response built from the stored record
\* after a not-tracked condition has a non-null result equal, field by field,
\* to the result of the response built from the live signal, and the same
\* success and message.
C9_FallbackInvisible ==
  \A i, j \in Invocations :
    (SameExecution(i, j) /\ TimesReadable(live[i].value)) =>
      /\ Has(response[j], "result") /\ response[j].result # Null
      /\ Has(response[i], "result") /\ response[i].result = response[j].result
      /\ response[i].success = response[j].success
      /\ SameMessage(response[i], response[j])

\* C9 (amended): for the same underlying execution data, whose timestamps are
\* dates, ISO text or absent, both responses carry a non-null result with the
\* same fields, the same success and the same message; the results agree in
\* every field except
\* id (undefined from the live signal, the execution id from the stored record)
\* and, when the data has no start time, startedAt (the clock of each
\* normalisation).
C9_FallbackDiffersOnlyInId ==
  \A i, j \in Invocations :
    (SameExecution(i, j) /\ TimesReadable(live[i].value)) =>
      LET a == response[i]
          b == response[j]
          clocked == IF Has(live[i].value, "startedAt") THEN {} ELSE {"startedAt"}
      IN /\ Has(a, "result") /\ a.result # Null
         /\ Has(b, "result") /\ b.result # Null
         /\ DOMAIN a.result = DOMAIN b.result
         /\ \A f \in DOMAIN a.result \ ({"id"} \cup clocked) : a.result[f] = b.result[f]
         /\ a.result.id = Undefined
         /\ b.result.id = executionResponse[j].executionId
         /\ a.success = b.success
         /\ SameMessage(a, b)

C9_Witness ==
  \E i, j \in Invocations :
    /\ SameExecution(i, j)
    /\ pc[i] = "returned" /\ pc[j] = "returned"
    /\ live[i].value.status = Str("error")
    /\ Get(live[i].value, "finished") = Bool(TRUE)
    /\ Has(response[j], "result")

\* C10: when the wait stage yields a result whose status is "error", the
\* handler returns success=false and a message: the nested error's message if
\* it has one, otherwise "Execution finished with an error." - also when the
\* result carries no nested error object.
C10_ErrorStatusHasMessage ==
  \A i \in Invocations :
    ( /\ pc[i] = "returned"
      /\ Has(response[i], "result")
      /\ response[i].result # Null
      /\ response[i].result.status = Str("error") )
    => /\ response[i].success = FALSE
       /\ Has(response[i], "message")
       /\ response[i].message =
            IF Has(response[i].result.error, "message")
            THEN response[i].result.error.message
            ELSE Str("Execution finished with an error.")


\* the request in flight: executeManually has been called and has not settled
InFlight(i) == pc[i] = "executeManually"
HasStart(i) == Has(manualRunPayload[i], "triggerToStartFrom")
StartOf(i) == manualRunPayload[i].triggerToStartFrom
StartJson(i) == StartOf(i).data.data.main[1][1].json
\* the positions of the enabled nodes of a type
EnabledOf(nodes, type) ==
  { k \in 1..Len(nodes) :
      nodes[k].type = type /\ ~(Has(nodes[k], "disabled") /\ nodes[k].disabled = Bool(TRUE)) }
EnabledTriggersOf(nodes) ==
  EnabledOf(nodes, CHAT_TRIGGER_NODE_TYPE) \cup EnabledOf(nodes, FORM_TRIGGER_NODE_TYPE)
    \cup EnabledOf(nodes, WEBHOOK_NODE_TYPE)
StartsAtOneOf(i, positions) ==
  HasStart(i) /\ \E k \in positions : StartOf(i).name = workflow[i].nodes[k].name

\* C11: when the predicate returned false, the dispatched request starts from
\* an enabled chat trigger if there is one, otherwise from an enabled form
\* trigger if there is one, otherwise from an enabled webhook node, whatever the
\* order of the nodes; it never starts from a disabled node.
C11_TriggerPriority ==
  \A i \in Invocations :
    (InFlight(i) /\ canManuallyExecute[i] = Bool(FALSE)) =>
      LET nodes == workflow[i].nodes
          chats == EnabledOf(nodes, CHAT_TRIGGER_NODE_TYPE)
          forms == EnabledOf(nodes, FORM_TRIGGER_NODE_TYPE)
          hooks == EnabledOf(nodes, WEBHOOK_NODE_TYPE)
      IN /\ chats # {} => StartsAtOneOf(i, chats)
         /\ (chats = {} /\ forms # {}) => StartsAtOneOf(i, forms)
         /\ (chats = {} /\ forms = {} /\ hooks # {}) => StartsAtOneOf(i, hooks)
         /\ HasStart(i) => StartsAtOneOf(i, EnabledTriggersOf(nodes))

C11_Witness ==
  \E i \in Invocations :
    /\ InFlight(i) /\ canManuallyExecute[i] = Bool(FALSE)
    /\ Len(workflow[i].nodes) = 2
    /\ EnabledOf(workflow[i].nodes, WEBHOOK_NODE_TYPE) = {1}
    /\ EnabledOf(workflow[i].nodes, CHAT_TRIGGER_NODE_TYPE) = {2}
    /\ StartOf(i).name = workflow[i].nodes[2].name

\* the only enabled trigger nodes of the workflow are webhook nodes
OnlyWebhookEnabled(nodes) ==
  /\ EnabledOf(nodes, WEBHOOK_NODE_TYPE) # {}
  /\ EnabledOf(nodes, CHAT_TRIGGER_NODE_TYPE) = {}
  /\ EnabledOf(nodes, FORM_TRIGGER_NODE_TYPE) = {}

\* C12 (as claimed): for every workflow whose only enabled trigger node is a
\* webhook node, the dispatched request carries a synthetic start that targets
\* that webhook node.
C12_WebhookOnlyStartsAtWebhook ==
  \A i \in Invocations :
    (InFlight(i) /\ OnlyWebhookEnabled(workflow[i].nodes)) =>
      StartsAtOneOf(i, EnabledOf(workflow[i].nodes, WEBHOOK_NODE_TYPE))

\* C12 (amended): for every workflow whose only enabled trigger node is a
\* webhook node and for which the executability predicate returned false, the
\* dispatched request carries a synthetic start that targets that webhook node
\* (the first one, if several are enabled).
C12_WebhookOnlyStartsAtWebhookIfNotExecutable ==
  \A i \in Invocations :
    ( /\ InFlight(i)
      /\ canManuallyExecute[i] = Bool(FALSE)
      /\ OnlyWebhookEnabled(workflow[i].nodes) ) =>
      LET hooks == EnabledOf(workflow[i].nodes, WEBHOOK_NODE_TYPE)
      IN StartsAtOneOf(i, { k \in hooks : \A h \in hooks : k <= h })

C12_Witness ==
  \E i \in Invocations :
    /\ InFlight(i) /\ canManuallyExecute[i] = Bool(FALSE)
    /\ Len(workflow[i].nodes) = 2
    /\ workflow[i].nodes[1].type = CHAT_TRIGGER_NODE_TYPE
    /\ EnabledTriggersOf(workflow[i].nodes) = {2}
    /\ workflow[i].nodes[2].type = WEBHOOK_NODE_TYPE
    /\ StartOf(i).name = workflow[i].nodes[2].name

\* C13: the dispatched request carries a synthetic start exactly when the
\* predicate returned false and the workflow has an enabled chat trigger, form
\* trigger or webhook node, and then a single one (one target, one injected
\* item); otherwise it is the workflow snapshot alone.
C13_SyntheticStartIff ==
  \A i \in Invocations :
    InFlight(i) =>
      /\ HasStart(i) <=> ( /\ canManuallyExecute[i] = Bool(FALSE)
                           /\ EnabledTriggersOf(workflow[i].nodes) # {} )
      /\ ~HasStart(i) => manualRunPayload[i] = [workflowData |-> workflow[i]]
      /\ HasStart(i) =>
           /\ DOMAIN manualRunPayload[i] = {"workflowData", "triggerToStartFrom"}
           /\ manualRunPayload[i].workflowData = workflow[i]
           /\ Len(StartOf(i).data.data.main) = 1
           /\ Len(StartOf(i).data.data.main[1]) = 1

C13_Witness ==
  \E i \in Invocations :
    /\ InFlight(i) /\ canManuallyExecute[i] = Bool(TRUE)
    /\ EnabledOf(workflow[i].nodes, WEBHOOK_NODE_TYPE) # {}
    /\ ~HasStart(i)

\* the raw result the wait stage obtained, from the live signal or the store
RawResultOf(i) ==
  IF live[i] # Undefined /\ live[i].settled = "fulfilled" THEN live[i].value
  ELSE IF stored[i] # Undefined /\ stored[i].settled = "fulfilled" THEN stored[i].value
  ELSE Undefined
NestedErrorOf(raw) == OptGet(OptGet(OptGet(raw, "data"), "resultData"), "error")
\* the request of invocation i started from a node, and its inputs had a chatInput
ChatStartDispatched(i) ==
  /\ Has(args[i].inputs, "chatInput")
  /\ \E k \in CallsTo(i, "executeManually") : calls[i][k].arg # Undefined

\* C14: for a workflow the predicate rejected that has one enabled chat trigger
\* N, invoked with inputs {chatInput: c}, the request in flight starts from N
\* with an injected item whose action is "sendMessage" and whose chatInput is c;
\* when the dispatch then gave an identifier and the wait stage yielded a result
\* (one it could normalize) with status "success" and no nested error, the
\* response has success = true and result.status = "success".
C14_ChatScenario ==
  \A i \in Invocations :
    /\ ( /\ InFlight(i)
         /\ canManuallyExecute[i] = Bool(FALSE)
         /\ Cardinality(EnabledOf(workflow[i].nodes, CHAT_TRIGGER_NODE_TYPE)) = 1
         /\ Has(args[i].inputs, "chatInput") ) =>
         /\ StartsAtOneOf(i, EnabledOf(workflow[i].nodes, CHAT_TRIGGER_NODE_TYPE))
         /\ StartJson(i).action = Str("sendMessage")
         /\ StartJson(i).chatInput = args[i].inputs.chatInput
    /\ ( /\ pc[i] = "returned"
         /\ ChatStartDispatched(i)
         /\ executionId[i] \in ExecutionIds
         /\ RawResultOf(i) \notin {Undefined, Null}
         /\ Get(RawResultOf(i), "status") = Str("success")
         /\ NestedErrorOf(RawResultOf(i)) = Undefined
         /\ TimesReadable(RawResultOf(i)) ) =>
         /\ response[i].success = TRUE
         /\ Has(response[i], "result")
         /\ response[i].result # Null
         /\ response[i].result.status = Str("success")

C14_Witness ==
  \E i \in Invocations :
    /\ pc[i] = "returned"
    /\ args[i].inputs = [js |-> "object", chatInput |-> Str("hello")]
    /\ \E k \in CallsTo(i, "executeManually") : calls[i][k].arg = Str("A")
    /\ executionId[i] \in ExecutionIds
    /\ RawResultOf(i) \notin {Undefined, Null}
    /\ RawResultOf(i).status = Str("success")
    /\ response[i].success = TRUE
    /\ response[i].result.status = Str("success")

\* the collaborator operations that read and change nothing
ReadOperations ==
  { "findWorkflowForUser", "isManuallyExecutable", "getPostExecutePromise",
    "findSingleExecution" }
\* the operations that only look an execution up
ExecutionLookups == { "getPostExecutePromise", "findSingleExecution" }

\* C15: in every invocation, on every path, executeManually is called at most
\* once; every other collaborator call is a read, and after the dispatch the
\* handler only looks the execution up (live signal, then store): it calls
\* nothing that writes, deletes or cancels an execution.
C15_OneDispatchOnlyReads ==
  \A i \in Invocations :
    /\ Cardinality(CallsTo(i, "executeManually")) <= 1
    /\ \A k \in 1..Len(calls[i]) :
         /\ calls[i][k].fn \in ReadOperations \cup {"executeManually"}
         /\ (\E d \in CallsTo(i, "executeManually") : d < k) =>
              calls[i][k].fn \in ExecutionLookups
    /\ Cardinality(CallsTo(i, "getPostExecutePromise")) <= 1
    /\ Cardinality(CallsTo(i, "findSingleExecution")) <= 1

C15_Witness ==
  \E i \in Invocations :
    /\ pc[i] = "returned"
    /\ LiveNotTracked(i)
    /\ stored[i] # Undefined
    /\ Cardinality(CallsTo(i, "executeManually")) = 1
    /\ Len(calls[i]) = 5

\* the request in flight of invocation i injects a chat payload
ChatInFlight(i) == InFlight(i) /\ HasStart(i) /\ Has(StartJson(i), "sessionId")

\* C16: no two invocations that synthesize a chat payload dispatch the same
\* sessionId, also when they run concurrently on the same workflow and read the
\* clock at the same millisecond.
C16_SessionIdUnique ==
  \A i, j \in Invocations :
    (i # j /\ ChatInFlight(i) /\ ChatInFlight(j)) =>
      StartJson(i).sessionId # StartJson(j).sessionId

\* the inputs of two invocations are objects that differ at most in webhookData
\* and formData
SameButCallerData(a, b) ==
  /\ a.js = "object" /\ b.js = "object"
  /\ \A k \in (DOMAIN a \cup DOMAIN b) \ {"webhookData", "formData"} :
       Has(a, k) /\ Has(b, k) /\ a[k] = b[k]
\* the type of the node the request of invocation i starts from
StartTypeOf(i) ==
  LET k == CHOOSE k \in 1..Len(workflow[i].nodes) :
             workflow[i].nodes[k].name = StartOf(i).name
  IN workflow[i].nodes[k].type
WebhookTestPayload ==
  [js |-> "object", headers |-> EmptyObject, params |-> EmptyObject,
   query |-> EmptyObject, body |-> EmptyObject]

\* C18: two invocations on the same workflow, with the same answer of the
\* predicate, whose inputs differ only in webhookData or formData have requests
\* in flight with the same synthetic start target (or both none); for a webhook
\* target both inject {headers: {}, params: {}, query: {}, body: {}}, and for
\* the other targets the same item up to the fields read from the clock.
C18_CallerDataIgnored ==
  \A i, j \in Invocations :
    ( /\ i # j /\ InFlight(i) /\ InFlight(j)
      /\ workflow[i] = workflow[j]
      /\ canManuallyExecute[i] = canManuallyExecute[j]
      /\ SameButCallerData(args[i].inputs, args[j].inputs) ) =>
      /\ HasStart(i) <=> HasStart(j)
      /\ manualRunPayload[i].workflowData = manualRunPayload[j].workflowData
      /\ HasStart(i) =>
           /\ StartOf(i).name = StartOf(j).name
           /\ StartTypeOf(i) = WEBHOOK_NODE_TYPE =>
                /\ StartJson(i) = WebhookTestPayload
                /\ StartJson(j) = WebhookTestPayload
           /\ DOMAIN StartJson(i) = DOMAIN StartJson(j)
           /\ \A k \in DOMAIN StartJson(i) \ {"sessionId", "submittedAt"} :
                StartJson(i)[k] = StartJson(j)[k]

C18_Witness ==
  \E i, j \in Invocations :
    /\ i # j /\ InFlight(i) /\ InFlight(j)
    /\ workflow[i] = workflow[j]
    /\ args[i].inputs = EmptyObject
    /\ args[j].inputs = [js |-> "object", webhookData |-> EmptyObject]
    /\ HasStart(i) /\ HasStart(j)
    /\ StartTypeOf(i) = WEBHOOK_NODE_TYPE
    /\ StartJson(j) = WebhookTestPayload

\* the statuses of an execution that has not ended
NonTerminalStatuses == { Str("new"), Str("running"), Str("waiting") }
\* the response of invocation i carries a normalized result
HasResult(i) ==
  pc[i] = "returned" /\ Has(response[i], "result") /\ response[i].result # Null

\* C17: in every normalized result the handler returns, finished = true never
\* comes with a non-terminal status, whatever raw result the live signal or the
\* store delivered, its own finished flag included.
C17_FinishedOnlyWhenTerminal ==
  \A i \in Invocations :
    (HasResult(i) /\ response[i].result.finished = Bool(TRUE)) =>
      response[i].result.status \notin NonTerminalStatuses

\* C20: the normalized result's finished is the raw result's own flag when it
\* has one that is defined, and otherwise (status = "success"): true for
\* "success" without a flag, false for any other status without a flag; a raw
\* result of null (or undefined) gives a result of null.
C20_FinishedFlag ==
  \A i \in Invocations :
    ( /\ pc[i] = "returned"
      /\ \/ live[i] # Undefined /\ live[i].settled = "fulfilled"
         \/ stored[i] # Undefined /\ stored[i].settled = "fulfilled" ) =>
      LET raw == RawResultOf(i)
      IN IF raw \in {Undefined, Null}
         THEN Has(response[i], "result") /\ response[i].result = Null
         ELSE TimesReadable(raw) =>
                /\ HasResult(i)
                /\ response[i].result.finished =
                     IF Get(raw, "finished") # Undefined THEN raw.finished
                     ELSE IF raw.status = Str("success") THEN Bool(TRUE)
                     ELSE Bool(FALSE)

C20_Witness ==
  \E i \in Invocations :
    /\ HasResult(i)
    /\ RawResultOf(i) # Undefined
    /\ ~Has(RawResultOf(i), "finished")
    /\ RawResultOf(i).status = Str("success")
    /\ response[i].result.finished = Bool(TRUE)

\* everything the handler of invocation i holds
StateOf(i) ==
  << pc[i], args[i], workflow[i], canManuallyExecute[i], manualRunPayload[i],
     executionResponse[i], executionId[i], live[i], stored[i], calls[i],
     response[i], thrown[i] >>
StateOfNext(i) ==
  << pc'[i], args'[i], workflow'[i], canManuallyExecute'[i], manualRunPayload'[i],
     executionResponse'[i], executionId'[i], live'[i], stored'[i], calls'[i],
     response'[i], thrown'[i] >>
\* the next step of the handler of invocation i
HandlerStep(i) ==
  \/ Invoke(i, PairDomain)
  \/ FindWorkflowForUserSettles(i, PairDomain)
  \/ IsManuallyExecutableSettles(i, PairDomain)
  \/ ExecuteManuallySettles(i, PairDomain)
  \/ GetPostExecutePromiseSettles(i, PairDomain)
  \/ FindSingleExecutionSettles(i, PairDomain)
Ended(i) == pc[i] \in {"returned", "rejected"}
\* the responses that the answers invocation i itself received lead to
OwnResponses(i) ==
  IF executionResponse[i] = Undefined THEN { }
  ELSE IF IsWaitingForWebhook(executionResponse[i])
  THEN { WaitingForWebhookPayload(executionResponse[i]) }
  ELSE IF StartFailed(executionId[i]) THEN { NoExecutionIdPayload }
  ELSE IF live[i] = Undefined THEN { }
  ELSE IF live[i].settled = "fulfilled"
  THEN { RespondTo(executionId[i], Coalesce(live[i].value, Null), now) :
           now \in 0..MaxClock }
  ELSE IF live[i].reason # ExecutionNotFound
  THEN { WaitFailedPayload(executionId[i], live[i].reason) }
  ELSE IF stored[i] = Undefined THEN { }
  ELSE IF stored[i].settled = "fulfilled"
  THEN { RespondTo(executionId[i], Coalesce(stored[i].value, Null), now) :
           now \in 0..MaxClock }
  ELSE { WaitFailedPayload(executionId[i], stored[i].reason) }

\* C19: while an invocation is suspended on the live signal of its run, every
\* other invocation that has not ended can take its next step; a step of one
\* invocation changes nothing another invocation holds; and a response is one
\* that the invocation's own inputs and the answers it received itself lead to,
\* and exists only once that invocation has returned.
C19_InvocationsIndependent ==
  /\ [](\A i, j \in Invocations :
          (i # j /\ pc[i] = "getPostExecutePromise" /\ ~Ended(j)) =>
            ENABLED HandlerStep(j))
  /\ [](\A i \in Invocations :
          IF pc[i] = "returned" THEN response[i] \in OwnResponses(i)
          ELSE response[i] = Undefined)
  /\ [][\A i, j \in Invocations :
          (i # j /\ StateOfNext(i) # StateOf(i)) => StateOfNext(j) = StateOf(j)]_vars

C19_Witness ==
  \E i, j \in Invocations :
    /\ i # j
    /\ pc[i] = "getPostExecutePromise"
    /\ pc[j] = "returned"
    /\ live[j] # Undefined /\ live[j].settled = "fulfilled"
    /\ executionId[i] = executionId[j]
    /\ response[j] \in OwnResponses(j)

\* the fields of the three kinds of injected item
ChatPayloadFields == {"js", "sessionId", "action", "chatInput"}
FormPayloadFields == {"js", "submittedAt", "formMode"}
WebhookPayloadFields == {"js", "headers", "params", "query", "body"}
\* the positions of the workflow's nodes that carry the name the request starts from
StartPositions(i) ==
  { k \in 1..Len(workflow[i].nodes) : workflow[i].nodes[k].name = StartOf(i).name }

\* C21: whenever a request with a synthetic start is in flight, its target is
\* the name of a node of the workflow, and the injected item is of the kind of
\* that node: a chat item (sessionId, action, chatInput) only for an enabled
\* chat trigger, a form item (submittedAt, formMode "test") only for an enabled
\* form trigger, a webhook item (headers, params, query, body) only for an
\* enabled webhook node; it is always one of the three.
C21_PayloadMatchesTarget ==
  \A i \in Invocations :
    (InFlight(i) /\ HasStart(i)) =>
      LET nodes == workflow[i].nodes
          fields == DOMAIN StartJson(i)
      IN /\ StartPositions(i) # {}
         /\ fields \in { ChatPayloadFields, FormPayloadFields, WebhookPayloadFields }
         /\ fields = ChatPayloadFields =>
              /\ StartPositions(i) \subseteq EnabledOf(nodes, CHAT_TRIGGER_NODE_TYPE)
              /\ StartJson(i).action = Str("sendMessage")
         /\ fields = FormPayloadFields =>
              /\ StartPositions(i) \subseteq EnabledOf(nodes, FORM_TRIGGER_NODE_TYPE)
              /\ StartJson(i).formMode = Str("test")
         /\ fields = WebhookPayloadFields =>
              StartPositions(i) \subseteq EnabledOf(nodes, WEBHOOK_NODE_TYPE)

C21_Witness ==
  \E i \in Invocations :
    /\ InFlight(i) /\ HasStart(i)
    /\ EnabledOf(workflow[i].nodes, FORM_TRIGGER_NODE_TYPE) = {1}
    /\ EnabledOf(workflow[i].nodes, CHAT_TRIGGER_NODE_TYPE) = {2}
    /\ StartPositions(i) = {2}
    /\ DOMAIN StartJson(i) = ChatPayloadFields

\* the dispatch of invocation i returned an identifier
DispatchGaveId(i) ==
  Dispatched(i) /\ Truthy(Get(executionResponse[i], "executionId"))

\* C22: when the live signal resolves with undefined, the store is not
\* consulted and the handler returns success=false, result=null, the dispatched
\* executionId and "Execution finished but result could not be retrieved.";
\* and in every response returned after a dispatch that gave an identifier the
\* executionId is that identifier, which is also the argument of both lookups.
C22_UndefinedRunAndSameId ==
  \A i \in Invocations :
    /\ live[i] = Fulfilled(Undefined) =>
         /\ pc[i] = "returned"
         /\ CallsTo(i, "findSingleExecution") = {}
         /\ stored[i] = Undefined
         /\ response[i].success = FALSE
         /\ response[i].result = Null
         /\ response[i].executionId = executionResponse[i].executionId
         /\ response[i].message =
              Str("Execution finished but result could not be retrieved.")
    /\ DispatchGaveId(i) =>
         /\ pc[i] = "returned" => response[i].executionId = executionResponse[i].executionId
         /\ \A k \in WaitStageCalls(i) : calls[i][k].arg = executionResponse[i].executionId

C22_Witness ==
  \E i \in Invocations :
    /\ pc[i] = "returned"
    /\ live[i] = Fulfilled(Undefined)
    /\ executionResponse[i].executionId = Str("1002")
    /\ response[i].executionId = Str("1002")
    /\ response[i].result = Null

====
